---- MODULE Spec2Model ----
(***************************************************************************)
(* saf_sync: one-way mirror of a source document tree onto a destination   *)
(* document tree through the Storage Access Framework command line tools.  *)
(*                                                                         *)
(* The document store (both trees) is one function from locators (uris)    *)
(* to nodes; the termux-saf-* programs are the only operations on it.      *)
(* sync is modelled statement by statement: every call of a termux-saf-*   *)
(* program is one step, and may fail (non-zero exit).                      *)
(***************************************************************************)
EXTENDS Integers, Sequences, FiniteSets, TLC

\* ------------------------------------------------------------- bounds
\* Largest number of entries below the source root / the destination root
\* in the initial store.
MaxSrcNodes == 2
MaxDstNodes == 2

\* ---------------------------------------------------------- input sets
NameSeq == <<"a", "b">>
Names == {NameSeq[k] : k \in 1..Len(NameSeq)}
NameIdx(n) == CHOOSE k \in 1..Len(NameSeq) : NameSeq[k] = n
\* Python's None, for an Optional[int].
None == -1
\* The time of the run: the modification time the provider stamps on a file
\* it creates or writes, later than every time of the initial trees.
Now == 4
\* The files of the initial trees, as (content, modification time).  Contents
\* are byte sequences.  Against the source file of one byte and time 2 the
\* destination files are older, as old and newer, all of its length and of
\* another content, or without a time; the other source files have no time,
\* or another length.
SrcFiles == {<<<<1>>, None>>, <<<<1>>, 2>>, <<<<1, 1>>, 2>>}
DstFiles == {<<<<2>>, 1>>, <<<<2>>, 2>>, <<<<2>>, 3>>, <<<<2>>, None>>}
\* ----------------------------------------------------------- SAFType
FILE == "FILE"
DIR == "DIR"
DirMime == "vnd.android.document/directory"
FileMime == "application/octet-stream"

map_mime_to_saf_type(mime) == IF mime = DirMime THEN DIR ELSE FILE

\* ---------------------------------------------------------- SAFEntry
\* parent is <<>> (None) or <<entry>>.
SAFEntry(uri, name, file_type, parent, length, modified) ==
    [uri |-> uri, name |-> name, file_type |-> file_type, parent |-> parent,
     length |-> length, modified |-> modified]

\* ------------------------------------------------- the document store
SRoot == 0
DRoot == MaxSrcNodes + 1
Absent == [exists |-> FALSE, name |-> "", mime |-> FileMime, parent |-> None,
           content |-> <<>>, mtime |-> None]
DirNode(name, parent) ==
    [exists |-> TRUE, name |-> name, mime |-> DirMime, parent |-> parent,
     content |-> <<>>, mtime |-> None]
FileNode(name, parent, content, mtime) ==
    [exists |-> TRUE, name |-> name, mime |-> FileMime, parent |-> parent,
     content |-> content, mtime |-> mtime]

Alive(st, uri) == uri \in DOMAIN st /\ st[uri].exists
IsDirNode(st, uri) == Alive(st, uri) /\ st[uri].mime = DirMime
IsFileNode(st, uri) == Alive(st, uri) /\ st[uri].mime # DirMime
Children(st, uri) == {c \in DOMAIN st : st[c].exists /\ st[c].parent = uri}
ChildNames(st, uri) == {st[c].name : c \in Children(st, uri)}

RECURSIVE IsUnder(_, _, _)
IsUnder(st, k, uri) ==
    \/ k = uri
    \/ /\ k \in DOMAIN st
       /\ st[k].parent # None
       /\ IsUnder(st, st[k].parent, uri)

FreshUri(st) == Cardinality(DOMAIN st)
\* The uri a failed termux-saf-mkdir / termux-saf-create prints: none.
BadUri == -2

\* ------------------------------------------------------ initial trees
\* A tree below a root is a sequence of node descriptions in breadth-first
\* order (parents before children, siblings by name); parent 0 is the root.
DirSpecs(n) ==
    [parent : 0..(n - 1), name : Names, mime : {DirMime},
     content : {<<>>}, mtime : {None}]
FileSpecs(n, files) ==
    {[parent |-> p, name |-> nm, mime |-> FileMime, content |-> f[1],
      mtime |-> f[2]] : p \in 0..(n - 1), nm \in Names, f \in files}
Canonical(t) ==
    /\ \A k \in DOMAIN t :
          /\ t[k].parent < k
          /\ t[k].parent > 0 => t[t[k].parent].mime = DirMime
    /\ \A k, m \in DOMAIN t :
          k < m => \/ t[k].parent < t[m].parent
                   \/ /\ t[k].parent = t[m].parent
                      /\ NameIdx(t[k].name) < NameIdx(t[m].name)
TreesOfSize(n, files) ==
    {t \in [1..n -> DirSpecs(n) \cup FileSpecs(n, files)] : Canonical(t)}
Trees(max, files) == UNION {TreesOfSize(n, files) : n \in 0..max}
SrcTrees == Trees(MaxSrcNodes, SrcFiles)
DstTrees == Trees(MaxDstNodes, DstFiles)

NodeOf(spec, base) ==
    [exists |-> TRUE, name |-> spec.name, mime |-> spec.mime,
     parent |-> base + spec.parent, content |-> spec.content,
     mtime |-> spec.mtime]
MkStore(st, dt) ==
    [u \in 0..(DRoot + MaxDstNodes) |->
        IF u = SRoot THEN DirNode("<source_root>", None)
        ELSE IF u = DRoot THEN DirNode("<dest_root>", None)
        ELSE IF u < DRoot /\ u <= Len(st) THEN NodeOf(st[u], SRoot)
        ELSE IF u > DRoot /\ u - DRoot <= Len(dt) THEN NodeOf(dt[u - DRoot], DRoot)
        ELSE Absent]

\* --------------------------------------------- the termux-saf-* programs
\* Each program is one request to the document provider.  It returns the
\* set of its possible results [ok, store, out]: a failure (non-zero exit,
\* store unchanged) is always possible, and is the only result when the
\* addressed document does not exist or has the wrong kind.  A successful
\* create or write stamps the file with the time of the run.
Failed(st, out) == [ok |-> FALSE, store |-> st, out |-> out]

Orderings(S) ==
    {o \in [1..Cardinality(S) -> S] :
        \A a, b \in 1..Cardinality(S) : a # b => o[a] # o[b]}
JsonOf(st, c) ==
    [uri |-> c, name |-> st[c].name, type |-> st[c].mime,
     length |-> IF st[c].mime = DirMime THEN None ELSE Len(st[c].content),
     last_modified |-> st[c].mtime]
termux_saf_ls(st, uri) ==
    {Failed(st, <<>>)} \cup
    IF IsDirNode(st, uri)
    THEN {[ok |-> TRUE, store |-> st,
           out |-> [k \in 1..Len(o) |-> JsonOf(st, o[k])]] :
             o \in Orderings(Children(st, uri))}
    ELSE {}

termux_saf_mkdir(st, parent_uri, name) ==
    {Failed(st, BadUri)} \cup
    IF IsDirNode(st, parent_uri)
    THEN {[ok |-> TRUE, out |-> FreshUri(st),
           store |-> st @@ (FreshUri(st) :> DirNode(name, parent_uri))]}
    ELSE {}

termux_saf_create(st, parent_uri, name) ==
    {Failed(st, BadUri)} \cup
    IF IsDirNode(st, parent_uri)
    THEN {[ok |-> TRUE, out |-> FreshUri(st),
           store |-> st @@ (FreshUri(st) :> FileNode(name, parent_uri, <<>>, Now))]}
    ELSE {}

termux_saf_read(st, uri) ==
    {Failed(st, <<>>)} \cup
    IF IsFileNode(st, uri)
    THEN {[ok |-> TRUE, store |-> st, out |-> st[uri].content]}
    ELSE {}

termux_saf_write(st, uri, content) ==
    {Failed(st, <<>>)} \cup
    IF IsFileNode(st, uri)
    THEN {[ok |-> TRUE, out |-> <<>>,
           store |-> [st EXCEPT ![uri].content = content, ![uri].mtime = Now]]}
    ELSE {}

termux_saf_rm(st, uri) ==
    {Failed(st, <<>>)} \cup
    IF Alive(st, uri)
    THEN {[ok |-> TRUE, out |-> <<>>,
           store |-> [k \in DOMAIN st |->
                        IF IsUnder(st, k, uri) THEN Absent ELSE st[k]]]}
    ELSE {}

\* subprocess.check_output / check_call / run(check=True): the call returns
\* when the program exits with status zero and raises CalledProcessError
\* otherwise; nothing in the module catches it.
\* (check_call without the check: the exit status is ignored.)
check_call_unchecked(ok, next) == next
check_call(ok, next) == IF ok THEN next ELSE "aborted"

\* ------------------------------------------------------------ listings
ls(entry, listing) ==
    [k \in 1..Len(listing) |->
        SAFEntry(listing[k].uri, listing[k].name,
                 map_mime_to_saf_type(listing[k].type), <<entry>>,
                 listing[k].length, listing[k].last_modified)]

\* A dict is the sequence of its values in insertion order of their keys.
Has(d, name) == \E k \in 1..Len(d) : d[k].name = name
Get(d, name) == d[CHOOSE k \in 1..Len(d) : d[k].name = name]
\* (Put_first: the same as setdefault, the first value of a key is kept.)
Put_first(d, e) == IF Has(d, e.name) THEN d ELSE Append(d, e)
Put(d, e) ==
    IF Has(d, e.name)
    THEN [k \in 1..Len(d) |-> IF d[k].name = e.name THEN e ELSE d[k]]
    ELSE Append(d, e)
RECURSIVE ls_map_from(_, _, _)
ls_map_from(ret, listed, k) ==
    IF k > Len(listed) THEN ret
    ELSE ls_map_from(Put(ret, listed[k]), listed, k + 1)
ls_map(listed) == ls_map_from(<<>>, listed, 1)

\* Line 166: entry.modified is not None and entry.length == dest_entry.length
\* and entry.modified > dest_entry.modified.  Comparing an int with None
\* raises TypeError.
\* (skip_transfer_inclusive: the same with >= for the last comparison.)
skip_transfer_inclusive(entry, dest_entry) ==
    IF entry.modified = None THEN "transfer"
    ELSE IF entry.length # dest_entry.length THEN "transfer"
    ELSE IF dest_entry.modified = None THEN "TypeError"
    ELSE IF entry.modified >= dest_entry.modified THEN "skip"
    ELSE "transfer"
skip_transfer(entry, dest_entry) ==
    IF entry.modified = None THEN "transfer"
    ELSE IF entry.length # dest_entry.length THEN "transfer"
    ELSE IF dest_entry.modified = None THEN "TypeError"
    ELSE IF entry.modified > dest_entry.modified THEN "skip"
    ELSE "transfer"

\* ---------------------------------------------------------------- state
VARIABLES
    store,           \* the document store: uri -> node
    store0,          \* the store when the current run of sync started
    run,             \* number of the current run of sync
    pc,              \* position of sync
    err,             \* the exception that ended sync, other than a failed program
    process_stack,   \* sync: process_stack
    source,          \* sync: source
    dest,            \* sync: dest
    source_entries,  \* sync: source_entries
    dest_entries,    \* sync: dest_entries
    i,               \* position of the loop of line 148 in source_entries
    j,               \* position of the loop of line 171 in dest_entries
    contents,        \* the bytes saf_read returned
    ret,             \* mkfile: ret
    log              \* the termux-saf-* calls of the current run, in order

vars == <<store, store0, run, pc, err, process_stack, source, dest,
          source_entries, dest_entries, i, j, contents, ret, log>>

Op(op, uri, ok) == [op |-> op, uri |-> uri, ok |-> ok]
Mutating == {"mkdir", "create", "write", "rm"}

\* Lines 186-187.
root_source == SAFEntry(SRoot, "<source_root>", DIR, <<>>, None, None)
root_dest == SAFEntry(DRoot, "<dest_root>", DIR, <<>>, None, None)
NoEntry == SAFEntry(BadUri, "", FILE, <<>>, None, None)

\* Line 189: sync(source_saf, dest_saf) on a store holding any two trees.
Init ==
    /\ \E st \in SrcTrees, dt \in DstTrees : store = MkStore(st, dt)
    /\ store0 = store
    /\ run = 1
    /\ pc = "while"
    /\ err = ""
    /\ process_stack = <<<<root_source, root_dest>>>>
    /\ source = NoEntry
    /\ dest = NoEntry
    /\ source_entries = <<>>
    /\ dest_entries = <<>>
    /\ i = 0
    /\ j = 0
    /\ contents = <<>>
    /\ ret = NoEntry
    /\ log = <<>>

\* An exception raised by the Python code itself ends sync.
Raise(e) ==
    /\ pc' = "error"
    /\ err' = e
    /\ UNCHANGED <<store, store0, run, process_stack, source, dest,
                   source_entries, dest_entries, i, j, contents, ret, log>>

\* Lines 80-81 (mkdir) and 101-102 (mkfile): the parent must be a directory,
\* or ValueError is raised before any program is called.
\* (parent_is_dir_unchecked: the same without the test.)
parent_is_dir_unchecked(parent) == TRUE
parent_is_dir(parent) == parent.file_type = DIR

\* ----------------------------------------------------------------- sync
\* Lines 138-142: the loop test, the pop, and the two tests on the pair.
\* (Pop_fifo: the same with process_stack.pop(0).)
Pop_fifo ==
    /\ pc = "while"
    /\ Len(process_stack) > 0
    /\ LET pair == Head(process_stack) IN
          /\ source' = pair[1]
          /\ dest' = pair[2]
          /\ pc' = IF pair[1].file_type = DIR
                   THEN IF pair[2].file_type # DIR THEN "rm_mismatch"
                        ELSE "ls_source"
                   ELSE "while"
    /\ process_stack' = Tail(process_stack)
    /\ UNCHANGED <<store, store0, run, err, source_entries, dest_entries,
                   i, j, contents, ret, log>>
Pop ==
    /\ pc = "while"
    /\ Len(process_stack) > 0
    /\ LET pair == process_stack[Len(process_stack)] IN
          /\ source' = pair[1]
          /\ dest' = pair[2]
          /\ pc' = IF pair[1].file_type = DIR
                   THEN IF pair[2].file_type # DIR THEN "rm_mismatch"
                        ELSE "ls_source"
                   ELSE "while"
    /\ process_stack' = SubSeq(process_stack, 1, Len(process_stack) - 1)
    /\ UNCHANGED <<store, store0, run, err, source_entries, dest_entries,
                   i, j, contents, ret, log>>

\* Line 138: the stack is empty, sync returns.  (Return_early: the same
\* without the test.)
Return_early ==
    /\ pc = "while"
    /\ pc' = "done"
    /\ UNCHANGED <<store, store0, run, err, process_stack, source, dest,
                   source_entries, dest_entries, i, j, contents, ret, log>>
Return ==
    /\ pc = "while"
    /\ Len(process_stack) = 0
    /\ pc' = "done"
    /\ UNCHANGED <<store, store0, run, err, process_stack, source, dest,
                   source_entries, dest_entries, i, j, contents, ret, log>>

\* Line 144: the destination of the pair is no directory, rm(dest).
RmMismatch ==
    /\ pc = "rm_mismatch"
    /\ \E r \in termux_saf_rm(store, dest.uri) :
          /\ pc' = check_call(r.ok, "mkdir_mismatch")
          /\ store' = r.store
          /\ log' = Append(log, Op("rm", dest.uri, r.ok))
    /\ UNCHANGED <<store0, run, err, process_stack, source, dest,
                   source_entries, dest_entries, i, j, contents, ret>>

\* Line 145: dest = mkdir(dest.parent, dest.name).  The parent of a root
\* entry is None, and mkdir reads parent.name and parent.file_type.
MkdirMismatch ==
    /\ pc = "mkdir_mismatch"
    /\ IF dest.parent = <<>> THEN Raise("AttributeError")
       ELSE IF ~parent_is_dir(dest.parent[1]) THEN Raise("ValueError")
       ELSE \E r \in termux_saf_mkdir(store, dest.parent[1].uri, dest.name) :
               /\ pc' = check_call(r.ok, "ls_source")
               /\ store' = r.store
               /\ dest' = SAFEntry(r.out, dest.name, DIR, dest.parent, None, None)
               /\ log' = Append(log, Op("mkdir", dest.parent[1].uri, r.ok))
               /\ UNCHANGED <<store0, run, err, process_stack, source,
                              source_entries, dest_entries, i, j, contents, ret>>

\* Line 146: source_entries = ls_map(source).
LsSource ==
    /\ pc = "ls_source"
    /\ \E r \in termux_saf_ls(store, source.uri) :
          /\ pc' = check_call(r.ok, "ls_dest")
          /\ source_entries' = ls_map(ls(source, r.out))
          /\ log' = Append(log, Op("ls", source.uri, r.ok))
    /\ UNCHANGED <<store, store0, run, err, process_stack, source, dest,
                   dest_entries, i, j, contents, ret>>

\* Line 147: dest_entries = ls_map(dest); the loop of line 148 starts.
LsDest ==
    /\ pc = "ls_dest"
    /\ \E r \in termux_saf_ls(store, dest.uri) :
          /\ pc' = check_call(r.ok, "for_source")
          /\ dest_entries' = ls_map(ls(dest, r.out))
          /\ log' = Append(log, Op("ls", dest.uri, r.ok))
    /\ i' = 1
    /\ UNCHANGED <<store, store0, run, err, process_stack, source, dest,
                   source_entries, j, contents, ret>>

\* Lines 148-168: the next source entry and the branch taken for it.  The
\* branches that call no program (push of a directory pair, skipped
\* transfer) complete here.  (ForSource_push_any: the same with line 163
\* taken for every kind.)
ForSource_push_any ==
    /\ pc = "for_source"
    /\ i <= Len(source_entries)
    /\ LET entry == source_entries[i] IN
          IF ~Has(dest_entries, entry.name)
          THEN /\ pc' = "cdm"
               /\ UNCHANGED <<err, process_stack, i>>
          ELSE LET dest_entry == Get(dest_entries, entry.name) IN
               IF entry.file_type # dest_entry.file_type
               THEN /\ pc' = "rm_child"
                    /\ UNCHANGED <<err, process_stack, i>>
               ELSE /\ process_stack' = Append(process_stack, <<entry, dest_entry>>)
                    /\ i' = i + 1
                    /\ UNCHANGED <<pc, err>>
    /\ UNCHANGED <<store, store0, run, source, dest, source_entries,
                   dest_entries, j, contents, ret, log>>
ForSource ==
    /\ pc = "for_source"
    /\ i <= Len(source_entries)
    /\ LET entry == source_entries[i] IN
          IF ~Has(dest_entries, entry.name)
          THEN /\ pc' = "cdm"
               /\ UNCHANGED <<err, process_stack, i>>
          ELSE LET dest_entry == Get(dest_entries, entry.name) IN
               IF entry.file_type # dest_entry.file_type
               THEN /\ pc' = "rm_child"
                    /\ UNCHANGED <<err, process_stack, i>>
               ELSE IF entry.file_type = DIR
               THEN /\ process_stack' = Append(process_stack, <<entry, dest_entry>>)
                    /\ i' = i + 1
                    /\ UNCHANGED <<pc, err>>
               ELSE LET decision == skip_transfer(entry, dest_entry) IN
                    /\ pc' = CASE decision = "skip" -> "for_source"
                               [] decision = "transfer" -> "upd_read"
                               [] OTHER -> "error"
                    /\ err' = IF decision \in {"skip", "transfer"} THEN err
                              ELSE decision
                    /\ i' = IF decision = "skip" THEN i + 1 ELSE i
                    /\ UNCHANGED process_stack
    /\ UNCHANGED <<store, store0, run, source, dest, source_entries,
                   dest_entries, j, contents, ret, log>>

\* Line 148 exhausted: the loop of line 171 starts.  (ForSourceEnd_early: the
\* same, leaving the loop of line 148 at any entry.)
ForSourceEnd_early ==
    /\ pc = "for_source"
    /\ i >= 1
    /\ pc' = "for_dest"
    /\ j' = 1
    /\ UNCHANGED <<store, store0, run, err, process_stack, source, dest,
                   source_entries, dest_entries, i, contents, ret, log>>
ForSourceEnd ==
    /\ pc = "for_source"
    /\ i > Len(source_entries)
    /\ pc' = "for_dest"
    /\ j' = 1
    /\ UNCHANGED <<store, store0, run, err, process_stack, source, dest,
                   source_entries, dest_entries, i, contents, ret, log>>

\* Line 159: rm(dest_entry).  (RmChild_skipped: the same without the call.)
RmChild_skipped ==
    /\ pc = "rm_child"
    /\ pc' = "cdm"
    /\ UNCHANGED <<store, store0, run, err, process_stack, source, dest,
                   source_entries, dest_entries, i, j, contents, ret, log>>
RmChild ==
    /\ pc = "rm_child"
    /\ LET dest_entry == Get(dest_entries, source_entries[i].name) IN
       \E r \in termux_saf_rm(store, dest_entry.uri) :
          /\ pc' = check_call(r.ok, "cdm")
          /\ store' = r.store
          /\ log' = Append(log, Op("rm", dest_entry.uri, r.ok))
    /\ UNCHANGED <<store0, run, err, process_stack, source, dest,
                   source_entries, dest_entries, i, j, contents, ret>>

\* create_dest_to_match(entry, dest), lines 127-129, with mkdir (78-83) and
\* the push of the returned pair (152-153, 161-162).  (MkdirUnder_unscheduled:
\* the same without the push.)
MkdirUnder_unscheduled(dest_parent) ==
    /\ pc = "cdm"
    /\ LET entry == source_entries[i] IN
          /\ entry.file_type = DIR
          /\ IF ~parent_is_dir(dest_parent) THEN Raise("ValueError")
             ELSE \E r \in termux_saf_mkdir(store, dest_parent.uri, entry.name) :
                  LET next == check_call(r.ok, "for_source") IN
                     /\ pc' = next
                     /\ store' = r.store
                     /\ log' = Append(log, Op("mkdir", dest_parent.uri, r.ok))
                     /\ i' = IF next = "aborted" THEN i ELSE i + 1
                     /\ UNCHANGED <<store0, run, err, process_stack, source, dest,
                                    source_entries, dest_entries, j, contents, ret>>
MkdirUnder(dest_parent) ==
    /\ pc = "cdm"
    /\ LET entry == source_entries[i] IN
          /\ entry.file_type = DIR
          /\ IF ~parent_is_dir(dest_parent) THEN Raise("ValueError")
             ELSE \E r \in termux_saf_mkdir(store, dest_parent.uri, entry.name) :
                  LET next == check_call(r.ok, "for_source")
                      new_dir == SAFEntry(r.out, entry.name, DIR, <<dest_parent>>,
                                          None, None)
                  IN /\ pc' = next
                     /\ store' = r.store
                     /\ log' = Append(log, Op("mkdir", dest_parent.uri, r.ok))
                     /\ IF next = "aborted"
                        THEN UNCHANGED <<process_stack, i>>
                        ELSE /\ process_stack' =
                                    Append(process_stack, <<entry, new_dir>>)
                             /\ i' = i + 1
                     /\ UNCHANGED <<store0, run, err, source, dest,
                                    source_entries, dest_entries, j, contents, ret>>
\* (CdmMkdir_in_source: the directory made under the source of the pair.)
CdmMkdir_in_source == MkdirUnder(source)
CdmMkdir == MkdirUnder(dest)

\* saf_read(entry), lines 93-96, as called at lines 131 and 169.
SafRead(entry, next_pc) ==
    IF entry.file_type # FILE THEN Raise("ValueError")
    ELSE \E r \in termux_saf_read(store, entry.uri) :
            /\ pc' = check_call(r.ok, next_pc)
            /\ contents' = r.out
            /\ log' = Append(log, Op("read", entry.uri, r.ok))
            /\ UNCHANGED <<store, store0, run, err, process_stack, source, dest,
                           source_entries, dest_entries, i, j, ret>>

\* create_dest_to_match(entry, dest), line 131: the source is a file.
CdmRead ==
    /\ pc = "cdm"
    /\ source_entries[i].file_type # DIR
    /\ SafRead(source_entries[i], "mkfile")

\* mkfile(dest_parent, source.name, source_contents), lines 100-104.
\* (MkfileCreate_at_root: the same with the destination root for dest_parent.)
MkfileCreate_at_root ==
    /\ pc = "mkfile"
    /\ LET entry == source_entries[i] IN
          \E r \in termux_saf_create(store, root_dest.uri, entry.name) :
             /\ pc' = check_call(r.ok, "mkfile_write")
             /\ store' = r.store
             /\ ret' = SAFEntry(r.out, entry.name, FILE, <<root_dest>>, None, None)
             /\ log' = Append(log, Op("create", root_dest.uri, r.ok))
             /\ UNCHANGED <<store0, run, err, process_stack, source, dest,
                            source_entries, dest_entries, i, j, contents>>
MkfileCreate ==
    /\ pc = "mkfile"
    /\ LET entry == source_entries[i] IN
          IF ~parent_is_dir(dest) THEN Raise("ValueError")
          ELSE \E r \in termux_saf_create(store, dest.uri, entry.name) :
                  /\ pc' = check_call(r.ok, "mkfile_write")
                  /\ store' = r.store
                  /\ ret' = SAFEntry(r.out, entry.name, FILE, <<dest>>, None, None)
                  /\ log' = Append(log, Op("create", dest.uri, r.ok))
                  /\ UNCHANGED <<store0, run, err, process_stack, source, dest,
                                 source_entries, dest_entries, i, j, contents>>

\* saf_write(target, contents), lines 86-90, as called at lines 106 and 170;
\* the loop of line 148 then moves on.
SafWrite(target) ==
    IF target.file_type # FILE THEN Raise("ValueError")
    ELSE \E r \in termux_saf_write(store, target.uri, contents) :
         LET next == check_call(r.ok, "for_source") IN
            /\ pc' = next
            /\ store' = r.store
            /\ log' = Append(log, Op("write", target.uri, r.ok))
            /\ i' = IF next = "aborted" THEN i ELSE i + 1
            /\ UNCHANGED <<store0, run, err, process_stack, source, dest,
                           source_entries, dest_entries, j, contents, ret>>

\* mkfile, lines 105-107: content is not None.  (MkfileWrite_omitted: the
\* same without the write.)
MkfileWrite_omitted ==
    /\ pc = "mkfile_write"
    /\ pc' = "for_source"
    /\ i' = i + 1
    /\ UNCHANGED <<store, store0, run, err, process_stack, source, dest,
                   source_entries, dest_entries, j, contents, ret, log>>
MkfileWrite ==
    /\ pc = "mkfile_write"
    /\ SafWrite(ret)

\* Line 169: contents = saf_read(entry).
UpdRead ==
    /\ pc = "upd_read"
    /\ SafRead(source_entries[i], "upd_write")

\* Line 170: saf_write(dest_entry, contents).
UpdWrite ==
    /\ pc = "upd_write"
    /\ SafWrite(Get(dest_entries, source_entries[i].name))

\* Lines 171-173: the destination entry has a source entry of its name.
ForDestContinue ==
    /\ pc = "for_dest"
    /\ j <= Len(dest_entries)
    /\ Has(source_entries, dest_entries[j].name)
    /\ j' = j + 1
    /\ UNCHANGED <<store, store0, run, pc, err, process_stack, source, dest,
                   source_entries, dest_entries, i, contents, ret, log>>

\* Lines 174-175: it has none, rm(dest_entries[entry_name]).  (ForDestRm_kept:
\* the same without the call.)
ForDestRm_kept ==
    /\ pc = "for_dest"
    /\ j <= Len(dest_entries)
    /\ ~Has(source_entries, dest_entries[j].name)
    /\ j' = j + 1
    /\ UNCHANGED <<store, store0, run, pc, err, process_stack, source, dest,
                   source_entries, dest_entries, i, contents, ret, log>>
\* (ForDestRm_all: the same without the test of line 172.)
ForDestRm_all ==
    /\ pc = "for_dest"
    /\ j <= Len(dest_entries)
    /\ \E r \in termux_saf_rm(store, dest_entries[j].uri) :
       LET next == check_call(r.ok, "for_dest") IN
          /\ pc' = next
          /\ store' = r.store
          /\ log' = Append(log, Op("rm", dest_entries[j].uri, r.ok))
          /\ j' = IF next = "aborted" THEN j ELSE j + 1
    /\ UNCHANGED <<store0, run, err, process_stack, source, dest,
                   source_entries, dest_entries, i, contents, ret>>
ForDestRm ==
    /\ pc = "for_dest"
    /\ j <= Len(dest_entries)
    /\ ~Has(source_entries, dest_entries[j].name)
    /\ \E r \in termux_saf_rm(store, dest_entries[j].uri) :
       LET next == check_call(r.ok, "for_dest") IN
          /\ pc' = next
          /\ store' = r.store
          /\ log' = Append(log, Op("rm", dest_entries[j].uri, r.ok))
          /\ j' = IF next = "aborted" THEN j ELSE j + 1
    /\ UNCHANGED <<store0, run, err, process_stack, source, dest,
                   source_entries, dest_entries, i, contents, ret>>

\* Line 171 exhausted: back to the loop test of line 138.
ForDestEnd ==
    /\ pc = "for_dest"
    /\ j > Len(dest_entries)
    /\ pc' = "while"
    /\ UNCHANGED <<store, store0, run, err, process_stack, source, dest,
                   source_entries, dest_entries, i, j, contents, ret, log>>

\* The program is started a second time on the same two roots (lines
\* 186-189).
Rerun ==
    /\ pc = "done"
    /\ run = 1
    /\ run' = run + 1
    /\ store0' = store
    /\ pc' = "while"
    /\ process_stack' = <<<<root_source, root_dest>>>>
    /\ source' = NoEntry
    /\ dest' = NoEntry
    /\ source_entries' = <<>>
    /\ dest_entries' = <<>>
    /\ i' = 0
    /\ j' = 0
    /\ contents' = <<>>
    /\ ret' = NoEntry
    /\ log' = <<>>
    /\ UNCHANGED <<store, err>>

\* The steps of sync called with two directory roots.  (Lines 144-145,
\* RmMismatch and MkdirMismatch, need a destination that is no directory.)
Next ==
    \/ Pop
    \/ Return
    \/ LsSource
    \/ LsDest
    \/ ForSource
    \/ ForSourceEnd
    \/ RmChild
    \/ CdmMkdir
    \/ CdmRead
    \/ MkfileCreate
    \/ MkfileWrite
    \/ UpdRead
    \/ UpdWrite
    \/ ForDestContinue
    \/ ForDestRm
    \/ ForDestEnd

\* One run of sync.
Spec == Init /\ [][Next]_vars

\* Two successive runs of sync, nothing else touching the store.
NextTwice ==
    \/ Next
    \/ Rerun
SpecTwice == Init /\ [][NextTwice]_vars

\* ------------------------------------------------- reading the outcome
RECURSIVE PathOf(_, _)
\* The names from the root down to a live node.
PathOf(st, u) ==
    IF st[u].parent = None THEN <<>>
    ELSE Append(PathOf(st, st[u].parent), st[u].name)
TreeUnder(st, root) == {u \in DOMAIN st : st[u].exists /\ IsUnder(st, u, root)}
Shape(st, root) == {<<PathOf(st, u), st[u].mime>> : u \in TreeUnder(st, root)}
\* The freshness heuristic as the specification words it.
Fresher(src_len, src_mtime, dst_len, dst_mtime) ==
    /\ src_mtime # None
    /\ src_len = dst_len
    /\ dst_mtime # None
    /\ src_mtime > dst_mtime
\* The pairs of directories (source uri, destination uri) listed in this run.
LsPairs ==
    {<<log[k].uri, log[k + 1].uri>> :
        k \in {m \in 1..(Len(log) - 1) :
                 /\ log[m].op = "ls" /\ log[m].ok
                 /\ log[m + 1].op = "ls" /\ log[m + 1].ok
                 /\ IsUnder(store, log[m].uri, SRoot)}}
Called(op, uri) == \E k \in 1..Len(log) : log[k].op = op /\ log[k].uri = uri
\* The destination file d was left as the run found it, under the heuristic.
SkippedFile(s, d) ==
    /\ d \in DOMAIN store0
    /\ store0[d] = store[d]
    /\ Fresher(Len(store[s].content), store[s].mtime,
               Len(store0[d].content), store0[d].mtime)

\* C1 (convergence): when sync returns, the destination tree has the paths
\* and kinds of the source tree, and every destination file has the content
\* of the source file of its path, or was skipped by the freshness heuristic
\* and has its length.
C1_Convergence ==
    pc = "done" =>
       /\ Shape(store, DRoot) = Shape(store, SRoot)
       /\ Cardinality(TreeUnder(store, DRoot)) = Cardinality(TreeUnder(store, SRoot))
       /\ \A s \in TreeUnder(store, SRoot), d \in TreeUnder(store, DRoot) :
             (PathOf(store, s) = PathOf(store, d) /\ store[s].mime # DirMime) =>
                \/ store[d].content = store[s].content
                \/ /\ SkippedFile(s, d)
                   /\ Len(store[d].content) = Len(store[s].content)
\* A first run that created a file and skipped another whose content differs.
C1_Witness ==
    /\ pc = "done"
    /\ run = 1
    /\ \E k \in 1..Len(log) : log[k].op = "create" /\ log[k].ok
    /\ \E s \in TreeUnder(store, SRoot), d \in TreeUnder(store, DRoot) :
          /\ PathOf(store, s) = PathOf(store, d)
          /\ store[s].mime # DirMime
          /\ store[d].content # store[s].content

\* C2 (idempotence, under SpecTwice): the second of two successive runs calls
\* no mutating program (mkdir, create, write, rm).
C2_Idempotence ==
    run = 2 => \A k \in 1..Len(log) : log[k].op \notin Mutating

\* C3 (deletion completeness): when sync returns, every child a reconciled
\* destination directory had at the start of the run, whose name is no child
\* name of the source directory, is gone.
C3_DeletionComplete ==
    pc = "done" =>
       \A p \in LsPairs : \A c \in DOMAIN store0 :
          ( /\ store0[c].exists
            /\ store0[c].parent = p[2]
            /\ store0[c].name \notin ChildNames(store, p[1]) )
          => ~store[c].exists
\* A returned run that found a destination-only child.
C3_Witness ==
    /\ pc = "done"
    /\ \E p \in LsPairs : \E c \in DOMAIN store0 :
          /\ store0[c].exists
          /\ store0[c].parent = p[2]
          /\ store0[c].name \notin ChildNames(store, p[1])
          /\ ~store[c].exists

\* C4 (type-mismatch correction): when sync returns, a destination child whose
\* kind differed from the source child of its name is gone with everything
\* below it, and the entry of that name has the kind of the source (and, for
\* a file, its content).
C4_TypeMismatch ==
    pc = "done" =>
       \A p \in LsPairs : \A c \in Children(store0, p[2]) :
          \A e \in Children(store, p[1]) :
             (store0[c].name = store[e].name /\ store0[c].mime # store[e].mime) =>
                /\ \A x \in DOMAIN store0 : IsUnder(store0, x, c) => ~store[x].exists
                /\ \E n \in Children(store, p[2]) : store[n].name = store[e].name
                /\ \A n \in Children(store, p[2]) :
                      store[n].name = store[e].name =>
                         /\ store[n].mime = store[e].mime
                         /\ store[n].content = store[e].content
                         /\ ChildNames(store, n) \subseteq ChildNames(store, e)
\* A returned run that found a destination directory with a child where the
\* source has a file.
C4_Witness ==
    /\ pc = "done"
    /\ \E p \in LsPairs : \E c \in Children(store0, p[2]) :
          \E e \in Children(store, p[1]) :
             /\ store0[c].name = store[e].name
             /\ store0[c].mime = DirMime
             /\ store[e].mime # DirMime
             /\ Children(store0, c) # {}

\* The positions of sync at which source_entries, dest_entries and i are
\* those of the directory pair being processed.
LevelPcs == {"for_source", "rm_child", "cdm", "mkfile", "mkfile_write",
             "upd_read", "upd_write", "for_dest"}
\* The entries of the current pair, already handled by the loop of line 148,
\* that are files on both sides: <<source entry, destination entry>>.
HandledFilePairs ==
    IF pc \notin LevelPcs THEN {}
    ELSE {<<source_entries[k], Get(dest_entries, source_entries[k].name)>> :
            k \in {m \in 1..Len(source_entries) :
                     /\ m < i
                     /\ source_entries[m].file_type = FILE
                     /\ Has(dest_entries, source_entries[m].name)
                     /\ Get(dest_entries, source_entries[m].name).file_type = FILE}}
FresherEntry(e, d) == Fresher(e.length, e.modified, d.length, d.modified)

C6_TransferRule ==
    /\ err # "TypeError"
    /\ \A fp \in HandledFilePairs :
          ~FresherEntry(fp[1], fp[2]) =>
             /\ Called("read", fp[1].uri)
             /\ Called("write", fp[2].uri)
             /\ store[fp[2].uri].content = store[fp[1].uri].content

\* C7 (fail-fast abort): once a program has failed, no further program is
\* called and the store stays as it is: what was applied before the failure
\* remains.
C7_FailFast ==
    [][ (Len(log) > 0 /\ ~log[Len(log)].ok) => (log' = log /\ store' = store) ]_vars
\* A failure after the destination was changed, with directory pairs pending.
C7_Witness ==
    /\ pc = "aborted"
    /\ Len(log) > 0 /\ ~log[Len(log)].ok
    /\ store # store0
    /\ Len(process_stack) > 0

\* C9 (one-way mirror): in every state of a run, returned or aborted, the
\* source tree is the one the run started with, and no mutating program was
\* called on the source root or on an entry of the source tree.  MkStore
\* places the source tree at the uris SRoot..MaxSrcNodes.
SrcUris == SRoot..MaxSrcNodes
C9_OneWayMirror ==
    /\ \A u \in SrcUris : store[u] = store0[u]
    /\ \A u \in DOMAIN store : u \notin SrcUris => store[u].parent \notin SrcUris
    /\ \A k \in 1..Len(log) :
          log[k].op \in Mutating => log[k].uri \notin SrcUris
\* A run that created, wrote and removed entries.
C9_Witness ==
    /\ pc \in {"done", "aborted"}
    /\ {"mkdir", "write", "rm"} \subseteq {log[k].op : k \in 1..Len(log)}
    /\ TreeUnder(store, SRoot) # {SRoot}

\* C10 (termination): a run in which no program fails stops only by
\* returning with an empty work list.
C10_Terminates ==
    (~ENABLED Next) => (pc = "done" \/ (Len(log) > 0 /\ ~log[Len(log)].ok))

\* ------------------------------------- create_dest_to_match on its own
RECURSIVE EntryOf(_, _)
\* The entry ls yields for a live node (the root entries are those of main).
EntryOf(st, u) ==
    IF u = SRoot THEN root_source
    ELSE IF u = DRoot THEN root_dest
    ELSE SAFEntry(u, st[u].name, map_mime_to_saf_type(st[u].mime),
                  <<EntryOf(st, st[u].parent)>>,
                  IF st[u].mime = DirMime THEN None ELSE Len(st[u].content),
                  st[u].mtime)

\* create_dest_to_match(source, dest_parent), lines 125-133, called with any
\* listed source entry and any destination entry, file or directory.
InitCdm ==
    /\ \E st \in SrcTrees, dt \in DstTrees : store = MkStore(st, dt)
    /\ store0 = store
    /\ run = 1
    /\ pc = "cdm"
    /\ err = ""
    /\ process_stack = <<>>
    /\ source = root_source
    /\ \E s \in TreeUnder(store, SRoot) \ {SRoot} :
          source_entries = <<EntryOf(store, s)>>
    /\ \E d \in TreeUnder(store, DRoot) : dest = EntryOf(store, d)
    /\ dest_entries = <<>>
    /\ i = 1
    /\ j = 0
    /\ contents = <<>>
    /\ ret = NoEntry
    /\ log = <<>>

NextCdm ==
    \/ CdmMkdir
    \/ CdmRead
    \/ MkfileCreate
    \/ MkfileWrite

SpecCdm == InitCdm /\ [][NextCdm]_vars

\* C8 (materializer precondition): create_dest_to_match with a dest_parent
\* that is a file never returns: it ends in ValueError (for a file source
\* after the source was read, unless that read failed), and it creates,
\* writes and removes nothing.
C8_Precondition ==
    dest.file_type # DIR =>
       /\ store = store0
       /\ \A k \in 1..Len(log) : log[k].op = "read" /\ log[k].uri = source_entries[1].uri
       /\ pc \in {"cdm", "mkfile", "error", "aborted"}
       /\ pc = "error" => err = "ValueError"
       /\ pc = "aborted" => (Len(log) = 1 /\ ~log[1].ok)
       /\ (pc = "mkfile" \/ Len(log) > 0) => source_entries[1].file_type = FILE
\* The call for a file source and a file dest_parent has raised ValueError.
C8_Witness ==
    /\ dest.file_type = FILE
    /\ source_entries[1].file_type = FILE
    /\ pc = "error"
    /\ err = "ValueError"
\* The call for a directory source and a file dest_parent has raised ValueError.
C8_WitnessDir ==
    /\ dest.file_type = FILE
    /\ source_entries[1].file_type = DIR
    /\ pc = "error"
    /\ err = "ValueError"

\* ------------------------------------------------ one directory level
\* The position in log of the last listing: the calls after it are those of
\* the directory pair being processed (or processed last).
LevelStart ==
    CHOOSE k \in 0..Len(log) :
       /\ k = 0 \/ log[k].op = "ls"
       /\ \A m \in (k + 1)..Len(log) : log[m].op # "ls"
LevelOps == (LevelStart + 1)..Len(log)
\* The positions of sync at which a level is complete.
LevelEndPcs == {"while", "done"}
\* The entries of the destination listing whose name the source listing lacks.
DestOnly ==
    {dest_entries[k] : k \in {m \in 1..Len(dest_entries) :
                                ~Has(source_entries, dest_entries[m].name)}}
DestOnlyUris == {e.uri : e \in DestOnly}
IsDeletion(k) == log[k].op = "rm" /\ log[k].uri \in DestOnlyUris
EntryUris(d) == {d[k].uri : k \in 1..Len(d)}

\* C11 (per-level ordering): within one directory pair, no call follows a
\* destination-only deletion except further such deletions; the deletion pass
\* starts when every source entry is handled and every directory pair of the
\* level is on the work list; only entries of the destination listing are
\* removed; the pass removes exactly the listed entries whose name the source
\* listing lacks; and at the end of the level every source name has an entry
\* in the destination directory.
C11_LevelOrder ==
    (pc \in LevelPcs \cup LevelEndPcs /\ Len(log) > 0) =>
       LET ops == LevelOps
           gone == DestOnlyUris
           dels == {k \in ops : log[k].op = "rm" /\ log[k].uri \in gone}
           removed == {log[k].uri : k \in {m \in dels : log[m].ok}}
       IN /\ \A k \in dels : \A m \in ops : k < m => m \in dels
          /\ pc \in LevelPcs \ {"for_dest"} => dels = {}
          /\ pc \in {"for_dest"} \cup LevelEndPcs =>
                /\ i > Len(source_entries)
                /\ \A k \in 1..Len(source_entries) :
                      source_entries[k].file_type = DIR =>
                         \/ \E m \in 1..Len(process_stack) :
                               process_stack[m][1] = source_entries[k]
                         \/ pc \in LevelEndPcs
          /\ \A k \in ops : log[k].op = "rm" => log[k].uri \in EntryUris(dest_entries)
          /\ pc = "for_dest" =>
                removed = {dest_entries[k].uri :
                             k \in {m \in 1..Len(dest_entries) :
                                      m < j /\ dest_entries[m].uri \in gone}}
          /\ pc \in LevelEndPcs =>
                /\ removed = gone
                /\ \A u \in gone : ~Alive(store, u)
                /\ \A k \in 1..Len(source_entries) :
                      source_entries[k].name \in ChildNames(store, dest.uri)
\* A completed level that created an entry, replaced another and then removed
\* a destination-only entry.
C11_Witness ==
    /\ pc = "while"
    /\ \E k, m \in LevelOps :
          /\ k < m
          /\ log[k].op \in {"mkdir", "create"} /\ log[k].ok
          /\ IsDeletion(m) /\ log[m].ok
    /\ \E k \in LevelOps : log[k].op = "rm" /\ ~IsDeletion(k)

\* The entries of the destination listing whose name the source listing has
\* with another kind.
Mismatched ==
    {dest_entries[k] :
       k \in {m \in 1..Len(dest_entries) :
                /\ Has(source_entries, dest_entries[m].name)
                /\ Get(source_entries, dest_entries[m].name).file_type
                      # dest_entries[m].file_type}}
\* The position of a name in the source listing.
SourceIdx(name) == CHOOSE k \in 1..Len(source_entries) : source_entries[k].name = name
IsCall(k, op, uri) == log[k].op = op /\ log[k].uri = uri

\* C12 (replace ordering): for a name both listings have with differing kinds,
\* the destination child is removed while no entry of the source's kind has
\* that name in the destination directory; the next call after the removal is
\* the mkdir under the destination directory of the pair (source directory),
\* or the read of the source file followed by the create under the destination
\* directory of the pair (source file); and once the name is handled a new
\* entry of the source's kind has it, in the destination directory of the pair.
C12_ReplaceOrder ==
    (pc \in LevelPcs \cup LevelEndPcs /\ Len(log) > 0) =>
       \A d \in Mismatched :
          LET e == Get(source_entries, d.name)
              handled == SourceIdx(d.name) < i
              made == {n \in Children(store, dest.uri) :
                         /\ store[n].name = e.name
                         /\ map_mime_to_saf_type(store[n].mime) = e.file_type}
          IN /\ \A k \in LevelOps :
                   (IsCall(k, "rm", d.uri) /\ log[k].ok /\ k < Len(log)) =>
                      IF e.file_type = DIR
                      THEN IsCall(k + 1, "mkdir", dest.uri)
                      ELSE /\ IsCall(k + 1, "read", e.uri)
                           /\ (log[k + 1].ok /\ k + 1 < Len(log)) =>
                                 IsCall(k + 2, "create", dest.uri)
             /\ (pc = "rm_child" /\ source_entries[i] = e) =>
                   /\ made = {}
                   /\ \A k \in LevelOps : ~IsCall(k, "rm", d.uri)
             /\ (pc \in {"cdm", "mkfile"} /\ source_entries[i] = e) =>
                   /\ made = {}
                   /\ ~Alive(store, d.uri)
                   /\ d.name \notin ChildNames(store, dest.uri)
             /\ handled =>
                   /\ ~Alive(store, d.uri)
                   /\ Cardinality(made) = 1
                   /\ made \cap EntryUris(dest_entries) = {}
\* A completed level below the root that replaced a directory by a file.
C12_Witness ==
    /\ pc = "while"
    /\ \E d \in Mismatched :
          /\ d.file_type = DIR
          /\ SourceIdx(d.name) < i
          /\ dest.uri # DRoot
          /\ \E k \in LevelOps :
                /\ k + 2 <= Len(log)
                /\ IsCall(k, "rm", d.uri)
                /\ IsCall(k + 2, "create", dest.uri)
                /\ log[k + 2].ok

\* C13 (materializer result and scheduling, under SpecCdm): when
\* create_dest_to_match has returned, the store has one entry more and is
\* otherwise as before; the new entry has the source's name and lies under
\* dest_parent.  For a directory source it is an empty directory, made by one
\* mkdir, and the work list holds the pair (source, new directory entry); for
\* a file source it is a file with the source's content, made by read, create
\* and write, and the work list holds nothing.  Nothing is pushed before the
\* return or when the call does not return.
C13_Materializer ==
    LET e == source_entries[1]
        made == DOMAIN store \ DOMAIN store0
    IN /\ pc # "for_source" => process_stack = <<>>
       /\ pc = "for_source" =>
             /\ \A u \in DOMAIN store0 : store[u] = store0[u]
             /\ Cardinality(made) = 1
             /\ \A n \in made :
                   /\ store[n].exists
                   /\ store[n].name = e.name
                   /\ store[n].parent = dest.uri
                   /\ IF e.file_type = DIR
                      THEN /\ store[n].mime = DirMime
                           /\ Children(store, n) = {}
                           /\ log = <<Op("mkdir", dest.uri, TRUE)>>
                           /\ process_stack =
                                 <<<<e, SAFEntry(n, e.name, DIR, <<dest>>, None, None)>>>>
                      ELSE /\ store[n].mime # DirMime
                           /\ store[n].content = store[e.uri].content
                           /\ log = <<Op("read", e.uri, TRUE),
                                      Op("create", dest.uri, TRUE),
                                      Op("write", n, TRUE)>>
                           /\ process_stack = <<>>
\* The call has returned for a directory source and a dest_parent below the
\* destination root.
C13_Witness ==
    /\ pc = "for_source"
    /\ source_entries[1].file_type = DIR
    /\ dest.uri # DRoot
    /\ Len(process_stack) = 1

\* C14 (work-list invariant): in a run started with two directory roots,
\* every pair on the work list, and the pair being processed, has a directory
\* source entry and a directory destination entry; lines 144-145 are never
\* reached, and no pair with a non-directory source is popped.
C14_WorkList ==
    /\ \A k \in 1..Len(process_stack) :
          /\ process_stack[k][1].file_type = DIR
          /\ process_stack[k][2].file_type = DIR
    /\ pc \notin {"rm_mismatch", "mkdir_mismatch"}
    /\ pc \in LevelPcs \cup {"ls_source", "ls_dest"} =>
          /\ source.file_type = DIR
          /\ dest.file_type = DIR
          /\ IsDirNode(store, source.uri)
    /\ source # NoEntry => source.file_type = DIR /\ dest.file_type = DIR
\* A work list with a pair for a directory both trees had and a pair for a
\* directory sync made.
C14_Witness ==
    /\ Len(process_stack) = 2
    /\ \E k, m \in 1..2 :
          /\ process_stack[k][2].uri \in DOMAIN store0
          /\ process_stack[m][2].uri \notin DOMAIN store0

\* ------------------------------------ sync called with any destination
\* A destination root entry that is a file (a caller of sync other than main).
root_dest_file == SAFEntry(DRoot, "<dest_root>", FILE, <<>>, None, None)

\* sync(root_source, dest), line 136, called with the source root and any
\* entry of the destination tree, file or directory, as ls yields it, or with
\* a destination root that is a file.
InitAnyDest ==
    /\ \E st \in SrcTrees, dt \in DstTrees :
          \/ /\ store = MkStore(st, dt)
             /\ \E d \in TreeUnder(store, DRoot) :
                   process_stack = <<<<root_source, EntryOf(store, d)>>>>
          \/ /\ dt = <<>>
             /\ store = [MkStore(st, dt) EXCEPT
                            ![DRoot] = FileNode("<dest_root>", None, <<2>>, 1)]
             /\ process_stack = <<<<root_source, root_dest_file>>>>
    /\ store0 = store
    /\ run = 1
    /\ pc = "while"
    /\ err = ""
    /\ source = NoEntry
    /\ dest = NoEntry
    /\ source_entries = <<>>
    /\ dest_entries = <<>>
    /\ i = 0
    /\ j = 0
    /\ contents = <<>>
    /\ ret = NoEntry
    /\ log = <<>>

NextAnyDest ==
    \/ Next
    \/ RmMismatch
    \/ MkdirMismatch

SpecAnyDest == InitAnyDest /\ [][NextAnyDest]_vars

\* The destination entry sync was called with.
dest0 == IF process_stack # <<>> /\ pc = "while" /\ log = <<>>
         THEN process_stack[1][2]
         ELSE IF store0[DRoot].mime # DirMime THEN root_dest_file
         ELSE IF log[1].op = "rm" THEN EntryOf(store0, log[1].uri)
         ELSE EntryOf(store0, log[2].uri)

\* C15 (destination type mismatch at dequeue, under SpecAnyDest): when the
\* destination entry of the popped pair is no directory, sync removes it,
\* makes a directory of its name under its parent and reconciles the source
\* directory against that directory: no error is raised (whether the entry
\* is a listed one or the root sync was called with), and when sync returns
\* the new directory has the paths and kinds of the source tree.
C15_DequeueMismatch ==
    (Len(log) > 0 /\ log[1].op = "rm") =>
       /\ pc # "error"
       /\ pc = "mkdir_mismatch" => ~Alive(store, log[1].uri)
       /\ (Len(log) > 1 /\ log[1].ok) =>
             /\ dest0.parent # <<>>
             /\ IsCall(2, "mkdir", dest0.parent[1].uri)
       /\ (Len(log) = 2 /\ log[2].ok) =>
             /\ pc = "ls_source"
             /\ source = root_source
             /\ dest.file_type = DIR
             /\ dest.uri \notin DOMAIN store0
       /\ Len(log) > 3 =>
             /\ IsCall(3, "ls", SRoot)
             /\ log[4].op = "ls"
             /\ log[4].uri \notin DOMAIN store0
             /\ IsDirNode(store, log[4].uri)
             /\ store[log[4].uri].name = dest0.name
             /\ store[log[4].uri].parent = dest0.parent[1].uri
       /\ pc = "done" =>
             {<<SubSeq(p[1], Len(PathOf(store, log[4].uri)) + 1, Len(p[1])), p[2]>> :
                 p \in Shape(store, log[4].uri)}
               = Shape(store, SRoot)
\* sync called with a listed destination file has replaced it by a directory
\* and returned, the source root holding something.
C15_WitnessListed ==
    /\ pc = "done"
    /\ log[1].op = "rm"
    /\ Len(log) > 4
    /\ Children(store, SRoot) # {}

\* --------------------------------------- sync on a deeper source tree
\* A store whose source tree has only directories, one more than MaxSrcNodes
\* (the last one at the uri after the destination tree's), and whose
\* destination tree has fewer than MaxDstNodes entries.
MkStoreDirs(st, dt) ==
    [u \in 0..(DRoot + MaxDstNodes) |->
        IF u = SRoot THEN DirNode("<source_root>", None)
        ELSE IF u = DRoot THEN DirNode("<dest_root>", None)
        ELSE IF u < DRoot /\ u <= Len(st) THEN NodeOf(st[u], SRoot)
        ELSE IF u = DRoot + MaxDstNodes /\ Len(st) > MaxSrcNodes
             THEN NodeOf(st[Len(st)], SRoot)
        ELSE IF u > DRoot /\ u - DRoot <= Len(dt) THEN NodeOf(dt[u - DRoot], DRoot)
        ELSE Absent]

\* Line 189: sync(source_saf, dest_saf) on such a store.
InitDirs ==
    /\ \E st \in Trees(MaxSrcNodes + 1, {}), dt \in Trees(MaxDstNodes - 1, DstFiles) :
          store = MkStoreDirs(st, dt)
    /\ store0 = store
    /\ run = 1
    /\ pc = "while"
    /\ err = ""
    /\ process_stack = <<<<root_source, root_dest>>>>
    /\ source = NoEntry
    /\ dest = NoEntry
    /\ source_entries = <<>>
    /\ dest_entries = <<>>
    /\ i = 0
    /\ j = 0
    /\ contents = <<>>
    /\ ret = NoEntry
    /\ log = <<>>

\* The steps of sync a source tree without files can take: line 131 and
\* lines 166-170 need a source file.
NextDirs ==
    \/ Pop
    \/ Return
    \/ LsSource
    \/ LsDest
    \/ ForSource
    \/ ForSourceEnd
    \/ RmChild
    \/ CdmMkdir
    \/ ForDestContinue
    \/ ForDestRm
    \/ ForDestEnd

SpecDirs == InitDirs /\ [][NextDirs]_vars

\* The source directories, and the position in log of the listing of one.
SourceDirs == {u \in TreeUnder(store, SRoot) : store[u].mime = DirMime}
Listed(u) == \E k \in 1..Len(log) : IsCall(k, "ls", u)
LsPos(u) == CHOOSE k \in 1..Len(log) : IsCall(k, "ls", u)
\* Directory y was pending (pushed, not popped) when directory x was popped.
PendingAt(y, x) ==
    /\ y # SRoot
    /\ Listed(store[y].parent) /\ Listed(x) /\ Listed(y)
    /\ LsPos(store[y].parent) < LsPos(x)
    /\ LsPos(x) < LsPos(y)

\* C16 (LIFO traversal, under SpecDirs): a pop takes the last pair of the
\* work list and leaves the others in place, a push adds one pair at the end;
\* and so every directory pushed while a directory x is processed (every
\* child directory of x) is listed before any directory that was pending when
\* x was popped.
C16_StackOrder ==
    \A x, y \in SourceDirs :
       PendingAt(y, x) =>
          \A c \in Children(store, x) :
             Listed(c) /\ LsPos(c) < LsPos(y)
C16_Lifo ==
    /\ []C16_StackOrder
    /\ [][ LET n == Len(process_stack) IN
             /\ Len(process_stack') < n =>
                   /\ <<source', dest'>> = process_stack[n]
                   /\ process_stack' = SubSeq(process_stack, 1, n - 1)
             /\ Len(process_stack') > n =>
                   /\ Len(process_stack') = n + 1
                   /\ SubSeq(process_stack', 1, n) = process_stack ]_vars
\* A returned run in which a directory with a child directory was popped
\* while another directory was pending.
C16_Witness ==
    /\ pc = "done"
    /\ \E x, y \in SourceDirs :
          /\ PendingAt(y, x)
          /\ Children(store, x) # {}

\* C17 (no stale locator): in a run on trees with unique sibling names that
\* nothing else changes, every program is called on an entry that exists in
\* the store at the call, of the kind the call needs (a directory for ls,
\* mkdir and create, a file for read and write); so nothing is removed twice
\* or written after its removal; and the destination directory of every
\* pending pair exists.
C17_PendingExist ==
    \A k \in 1..Len(process_stack) :
       /\ IsDirNode(store, process_stack[k][2].uri)
       /\ IsUnder(store, process_stack[k][2].uri, DRoot)
C17_NoStale ==
    /\ []C17_PendingExist
    /\ [][ Len(log') > Len(log) =>
             LET o == log'[Len(log')] IN
                /\ Alive(store, o.uri)
                /\ o.op \in {"ls", "mkdir", "create"} => IsDirNode(store, o.uri)
                /\ o.op \in {"read", "write"} => IsFileNode(store, o.uri)
                /\ \A k \in 1..Len(log) :
                      (log[k].op = "rm" /\ log[k].ok) => log[k].uri # o.uri ]_vars
\* A returned run that removed a destination entry, created and wrote a file,
\* and listed a destination directory it had found below the root.
C17_Witness ==
    /\ pc = "done"
    /\ \A op \in {"rm", "create", "write"} :
          \E k \in 1..Len(log) : log[k].op = op /\ log[k].ok
    /\ \E k \in 1..Len(log) :
          /\ log[k].op = "ls"
          /\ log[k].uri \in DOMAIN store0
          /\ log[k].uri > DRoot

\* The number of listings of u in log, and of pending pairs for u.
Listings(u) == Cardinality({k \in 1..Len(log) : IsCall(k, "ls", u)})
Pendings(u) ==
    Cardinality({k \in 1..Len(process_stack) : process_stack[k][1].uri = u})
\* s lies under the source root and d under the destination root, by the
\* same names.
SamePath(s, d) ==
    /\ IsUnder(store, s.uri, SRoot)
    /\ IsUnder(store, d.uri, DRoot)
    /\ Alive(store, s.uri) /\ Alive(store, d.uri)
    /\ PathOf(store, s.uri) = PathOf(store, d.uri)

\* C18 (path correspondence, under SpecDirs): every pair on the work list,
\* and the pair being processed, has a source entry and a destination entry
\* of the same path relative to their roots; no source directory is pending
\* or popped twice; and when sync returns every directory of the source tree
\* was popped (and listed) exactly once.
C18_PathCorrespondence ==
    /\ \A k \in 1..Len(process_stack) :
          SamePath(process_stack[k][1], process_stack[k][2])
    /\ pc \in LevelPcs \cup {"ls_source", "ls_dest"} => SamePath(source, dest)
    /\ \A u \in SourceDirs : Listings(u) + Pendings(u) <= 1
    /\ pc = "done" => \A u \in SourceDirs : Listings(u) = 1
\* A returned run on a source tree with a directory in a directory.
C18_Witness ==
    /\ pc = "done"
    /\ \E u \in SourceDirs : Len(PathOf(store, u)) = 2

\* The files sync created in this run.
CreatedFiles == {u \in DOMAIN store \ DOMAIN store0 : IsFileNode(store, u)}
HasSourceContent(u) ==
    \E f \in TreeUnder(store, SRoot) :
       /\ store[f].mime # DirMime
       /\ PathOf(store, f) = PathOf(store, u)
       /\ store[f].content = store[u].content

\* C19 (file creation with content): mkfile with content leaves no state in
\* which the new file exists without that content.  Every program call is a
\* separate request to the provider, so another process listing the
\* destination directory can see the store of any state between two steps
\* of sync; the store of a state in which sync has stopped is what an aborted
\* run leaves behind.
C19_AtomicCreate ==
    \A u \in CreatedFiles : HasSourceContent(u)
\* (The second half: no run aborts in the write of mkfile with the new file
\* left empty.)
C19_LeftBehind ==
    ~ ( /\ pc = "aborted"
        /\ log[Len(log)].op = "write"
        /\ \E u \in CreatedFiles : ~HasSourceContent(u) )

\* ------------------------------- sync on trees with duplicate names
\* The files of these trees: against the source file the destination files
\* are older and newer.
DupSrcFiles == {<<<<1>>, 2>>}
DupDstFiles == {<<<<2>>, 1>>, <<<<2>>, 3>>}
\* As Canonical, but siblings may have the same name (a provider that lists
\* several documents under one display name).
CanonicalDup(t) ==
    /\ \A k \in DOMAIN t :
          /\ t[k].parent < k
          /\ t[k].parent > 0 => t[t[k].parent].mime = DirMime
    /\ \A k, m \in DOMAIN t :
          k < m => \/ t[k].parent < t[m].parent
                   \/ /\ t[k].parent = t[m].parent
                      /\ NameIdx(t[k].name) <= NameIdx(t[m].name)
TreesDup(max, files) ==
    UNION {{t \in [1..n -> DirSpecs(n) \cup FileSpecs(n, files)] : CanonicalDup(t)} :
             n \in 0..max}

\* Line 189: sync(source_saf, dest_saf) on a store holding two such trees.
InitDup ==
    /\ \E st \in TreesDup(MaxSrcNodes, DupSrcFiles),
          dt \in TreesDup(MaxDstNodes, DupDstFiles) : store = MkStore(st, dt)
    /\ store0 = store
    /\ run = 1
    /\ pc = "while"
    /\ err = ""
    /\ process_stack = <<<<root_source, root_dest>>>>
    /\ source = NoEntry
    /\ dest = NoEntry
    /\ source_entries = <<>>
    /\ dest_entries = <<>>
    /\ i = 0
    /\ j = 0
    /\ contents = <<>>
    /\ ret = NoEntry
    /\ log = <<>>

SpecDup == InitDup /\ [][Next]_vars

\* The last entry of a listing with the name of its k-th entry.
LastOf(l, k) ==
    l[CHOOSE q \in 1..Len(l) :
         /\ l[q].name = l[k].name
         /\ \A p \in (q + 1)..Len(l) : l[p].name # l[k].name]
\* ls_map of every listing termux-saf-ls can print for an entry maps every
\* listed name, once, to the last entry listed with it.
LastWins(entry) ==
    \A r \in termux_saf_ls(store, entry.uri) :
       r.ok =>
          LET l == ls(entry, r.out)
              m == ls_map(l)
          IN /\ \A k \in 1..Len(l) :
                   Has(m, l[k].name) /\ Get(m, l[k].name) = LastOf(l, k)
             /\ \A k \in 1..Len(m) : \E q \in 1..Len(l) : m[k] = l[q]
             /\ \A k, q \in 1..Len(m) : m[k].name = m[q].name => k = q
\* The entries the two directories of the current pair had when they were
\* listed that the mappings do not hold: the earlier duplicates.
ShadowedDest ==
    {u \in DOMAIN store0 :
        /\ store0[u].exists
        /\ store0[u].parent = dest.uri
        /\ u \notin EntryUris(dest_entries)}
ShadowedSource ==
    {u \in Children(store, source.uri) : u \notin EntryUris(source_entries)}

\* C20 (duplicate names in a listing, under SpecDup): ls_map maps a name
\* listed several times to the entry listed last; and sync acts on the mapped
\* entries only: an earlier duplicate in the destination directory is never
\* addressed by a call and stays as it was, with all below it, and an earlier
\* duplicate in the source directory is never read or listed.
C20_Duplicates ==
    /\ pc = "ls_source" => LastWins(source)
    /\ pc = "ls_dest" => LastWins(dest)
    /\ pc \in LevelPcs \cup LevelEndPcs /\ Len(log) > 0 =>
          /\ \A u \in ShadowedDest :
                /\ \A k \in 1..Len(log) : log[k].uri # u
                /\ \A x \in DOMAIN store0 :
                      IsUnder(store0, x, u) => store[x] = store0[x]
                /\ \E k \in 1..Len(dest_entries) :
                      dest_entries[k].name = store0[u].name
          /\ \A u \in ShadowedSource :
                /\ \A k \in 1..Len(log) : log[k].uri # u
                /\ \E k \in 1..Len(source_entries) :
                      source_entries[k].name = store[u].name
\* A completed level whose destination listing had a name twice: the entry
\* listed last was removed or written, the other one is as it was.
C20_Witness ==
    /\ pc = "while"
    /\ Len(log) > 0
    /\ \E u \in ShadowedDest :
          \E k \in 1..Len(dest_entries) :
             /\ dest_entries[k].name = store0[u].name
             /\ \E m \in LevelOps :
                   /\ log[m].op \in {"rm", "write"}
                   /\ log[m].uri = dest_entries[k].uri
                   /\ log[m].ok
             /\ store[u] = store0[u]

====
